---- MODULE Spec2Model ----
(***************************************************************************)
(* A model of package peel (src/peel/peel.go): the queue operations QAdd,  *)
(* QGet and QAck, each of which builds a query plan and hands it to        *)
(* core.Query, which runs it atomically against the event sets of the      *)
(* backing store.                                                          *)
(*                                                                         *)
(* The plans (QAddPlan, QGetPlan, QAckPlan) are transcribed step by step   *)
(* from peel.go.  Package core (the plan interpreter, the ID generator,    *)
(* the payload store) is not part of src/; it is modelled from the         *)
(* specification's sections 3, 4.1 and 4.2.                                *)
(*                                                                         *)
(* Four specifications: Spec (an empty store, two concurrent clients),     *)
(* SpecStore (a store in use, one client and the sweep), SpecAdd (an empty *)
(* store that can fail, a producer and a consumer) and SpecGroups (a store *)
(* in use by two consumer groups).                                         *)
(*                                                                         *)
(* Time, event IDs and scores are one domain, as in the code, where an ID  *)
(* is a timestamp derived from the event's Expire: here 1..MaxTime, with 0 *)
(* for the zero value (no deadline, unbounded side of a range, no event).  *)
(***************************************************************************)
EXTENDS Integers, Sequences, FiniteSets

\* The largest timestamp: event IDs (Expire times) and deadlines are 1..MaxTime.
MaxTime == 3

\* The clock runs from 1 to MaxClock.
MaxClock == 3

Times == 1 .. MaxTime
Groups == {"g1", "g2"}
Procs == {"p1", "p2"}
\* One queue: the event sets of two queues share no key.
Queue == "q"

VARIABLES
  clock,    \* time.Now()
  sets,     \* the backing store's event sets: key -> set of <<ID, score>>
  lastID,   \* the ID generator: the last ID handed out
  stored,   \* the payload store: IDs whose contents are stored
  pc,       \* each client's position
  now,      \* each client's local `now`
  got,      \* QGet's ee[0].ID and consumer group, between Query and GetEvent
  last      \* history: the most recent plan run by core.Query, or sweep: what
            \* the call was given (op, g, id, dl, now), what came back (ret),
            \* what the group's redo and the event's deadline were before it
            \* (redo, score), and for a QAck whether the plan before it was a
            \* QAck of the same event (again: 1 if that returned false, 2 if
            \* true)

vars == <<clock, sets, lastID, stored, pc, now, got, last>>

(***************************************************************************)
(* Event sets                                                              *)
(***************************************************************************)
queueAvailable(q) == <<"available", q, "">>
queueInProgressByID(q, g) == <<"inprogress-id", q, g>>
queueInProgressByAck(q, g) == <<"inprogress-ack", q, g>>
queueRedo(q, g) == <<"redo", q, g>>
queueDone(q, g) == <<"done", q, g>>

\* The queue names a QAddCommand can carry: the name is Required, "" is none
QueueNames == {"", Queue}

Keys ==
  {queueAvailable(q) : q \in QueueNames} \cup
  UNION {{queueInProgressByID(Queue, g), queueInProgressByAck(Queue, g),
          queueRedo(Queue, g), queueDone(Queue, g)} : g \in Groups}

\* The IDs of an event set
IDs(z) == {m[1] : m \in z}

Min(S) == CHOOSE x \in S : \A y \in S : x <= y

\* An event set in score order (ties by ID), as a sequence of IDs
RECURSIVE Sorted(_)
Sorted(z) ==
  IF z = {} THEN <<>>
  ELSE LET m == CHOOSE a \in z :
                  \A b \in z : a[2] < b[2] \/ (a[2] = b[2] /\ a[1] <= b[1])
       IN <<m[1]>> \o Sorted(z \ {m})

Reversed(s) == [i \in 1 .. Len(s) |-> s[Len(s) + 1 - i]]

\* The first n of s; all of s when n = 0 (no Limit)
Take(s, n) == IF n = 0 \/ n >= Len(s) THEN s ELSE SubSeq(s, 1, n)

Range(s) == {s[i] : i \in 1 .. Len(s)}
(***************************************************************************)
(* core: the plan interpreter (specification, sections 4.1 and 4.2).       *)
(* A plan is a sequence of steps run left to right over an accumulator, a  *)
(* sequence of event IDs.  A step carries a conditional, a sequence of     *)
(* predicates that must all hold (And): a Break whose conditional holds    *)
(* ends the plan, any other step whose conditional does not hold is        *)
(* skipped.                                                                *)
(***************************************************************************)
NoCond == <<>>

CondHolds(c, acc, s) ==
  CASE c[1] = "IfInput" -> acc # <<>>
    [] c[1] = "IfNoInput" -> acc = <<>>
    [] c[1] = "IfEmpty" -> s[c[2]] = {}

Holds(cond, acc, s) == \A i \in 1 .. Len(cond) : CondHolds(cond[i], acc, s)

\* The lowest natural score (the ID) in the accumulator
MinFromInput(acc) == Min(Range(acc))

\* Select by score range.  0 leaves a side unbounded.  With MinFromInput the
\* lower bound is the lowest score in the accumulator, and an empty accumulator
\* selects nothing (peel.go:201-204 relies on it: a group with nothing done or
\* in progress reaches the cold-start select).
RangeSelect(z, r, acc) ==
  IF r.MinFromInput /\ acc = <<>> THEN <<>>
  ELSE LET lo == IF r.MinFromInput THEN MinFromInput(acc) ELSE r.Min
           in == {m \in z :
                    /\ lo = 0 \/ (IF r.MinExcl THEN m[2] > lo ELSE m[2] >= lo)
                    /\ r.Max = 0 \/ m[2] <= r.Max}
           ord == IF r.Reverse THEN Reversed(Sorted(in)) ELSE Sorted(in)
       IN Take(ord, r.Limit)

\* Select by position in score order, both ends included, from 0
PosRangeSelect(z, pos) ==
  LET ord == Sorted(z)
      lo == pos[1] + 1
      hi == IF pos[2] + 1 > Len(ord) THEN Len(ord) ELSE pos[2] + 1
  IN IF lo > hi THEN <<>> ELSE SubSeq(ord, lo, hi)

\* Select one given event if the set holds it with a score of at least Min
ScoreSelect(z, q) ==
  IF \E m \in z : m[1] = q.Event /\ m[2] >= q.Min THEN <<q.Event>> ELSE <<>>

Selected(step, acc, s) ==
  CASE step.sel.type = "range" -> RangeSelect(s[step.EventSet], step.sel, acc)
    [] step.sel.type = "pos" -> PosRangeSelect(s[step.EventSet], step.sel.pos)
    [] step.sel.type = "score" -> ScoreSelect(s[step.EventSet], step.sel)
    [] step.sel.type = "events" -> step.sel.Events

\* Union extends the accumulator; otherwise the selection replaces it
Select(step, acc, s) ==
  LET new == Selected(step, acc, s)
  IN IF step.Union
       THEN acc \o SelectSeq(new, LAMBDA e : e \notin Range(acc))
       ELSE new

\* AddTo: every event of the accumulator, under its natural score (its ID) or
\* the step's Score
AddTo(step, acc, s) ==
  [k \in DOMAIN s |->
     IF k \in Range(step.EventSets)
       THEN {m \in s[k] : m[1] \notin Range(acc)} \cup
            {<<e, IF step.Score = 0 THEN e ELSE step.Score>> : e \in Range(acc)}
       ELSE s[k]]

RemoveFrom(step, acc, s) ==
  [k \in DOMAIN s |->
     IF k \in Range(step.EventSets)
       THEN {m \in s[k] : m[1] \notin Range(acc)}
       ELSE s[k]]

RECURSIVE Run(_, _, _, _)
Run(steps, i, acc, s) ==
  IF i > Len(steps) THEN [acc |-> acc, sets |-> s]
  ELSE LET st == steps[i]
       IN IF st.kind = "break"
            THEN IF Holds(st.cond, acc, s)
                   THEN [acc |-> acc, sets |-> s]
                   ELSE Run(steps, i + 1, acc, s)
          ELSE IF ~Holds(st.cond, acc, s) THEN Run(steps, i + 1, acc, s)
          ELSE IF st.kind = "select" THEN Run(steps, i + 1, Select(st, acc, s), s)
          ELSE IF st.kind = "addto" THEN Run(steps, i + 1, acc, AddTo(st, acc, s))
          ELSE Run(steps, i + 1, acc, RemoveFrom(st, acc, s))

\* core.Query: the whole plan, atomically; the final accumulator and the sets
Query(qa, s) == Run(qa.QueryActions, 1, <<>>, s)
(***************************************************************************)
(* peel: the plans of QAdd, QGet and QAck, as peel.go builds them          *)
(***************************************************************************)
Selector(es, sel, union, cond) ==
  [kind |-> "select", EventSet |-> es, sel |-> sel, Union |-> union, cond |-> cond]

QueryAddTo(ess, score) ==
  [kind |-> "addto", EventSets |-> ess, Score |-> score, cond |-> NoCond]

QueryRemoveFrom(ess) == [kind |-> "removefrom", EventSets |-> ess, cond |-> NoCond]

Break(cond) == [kind |-> "break", cond |-> cond]

\* inProgOrDone that names the event sets of one fixed consumer group
inProgOrDoneShared(q, g, AckDeadline) ==
  IF AckDeadline # 0
    THEN <<QueryAddTo(<<queueInProgressByID(q, "g1")>>, 0),
           QueryAddTo(<<queueInProgressByAck(q, "g1")>>, AckDeadline)>>
    ELSE <<QueryAddTo(<<queueDone(q, "g1")>>, 0)>>

\* inProgOrDone that leaves out in-progress-by-ack-deadline
inProgOrDoneNoAck(q, g, AckDeadline) ==
  IF AckDeadline # 0
    THEN <<QueryAddTo(<<queueInProgressByID(q, g)>>, 0)>>
    ELSE <<QueryAddTo(<<queueDone(q, g)>>, 0)>>

\* peel.go:111-134
inProgOrDone(q, g, AckDeadline) ==
  IF AckDeadline # 0
    THEN <<QueryAddTo(<<queueInProgressByID(q, g)>>, 0),
           QueryAddTo(<<queueInProgressByAck(q, g)>>, AckDeadline)>>
    ELSE <<QueryAddTo(<<queueDone(q, g)>>, 0)>>

\* peel.go:136-141
breakIfFound == Break(<<<<"IfInput">>>>)

\* peel.go:143-149
mostRecentSelect(n) ==
  [type |-> "range", Min |-> n, MinExcl |-> TRUE, Max |-> 0, Limit |-> 1,
   Reverse |-> TRUE, MinFromInput |-> FALSE]

\* peel.go:150-151
oldestSelect(n) == [mostRecentSelect(n) EXCEPT !.Reverse = FALSE]

\* QGetRedo without its steps: a plan that never looks at redo
QGetRedoSkipped(q, g, n) == <<>>

\* QGetRedo without its QueryRemoveFrom: the event found stays in redo
QGetRedoKept(q, g, n) ==
  <<Selector(queueRedo(q, g), oldestSelect(n), FALSE, NoCond)>>

\* peel.go:156-166: the oldest event of redo, taken out of redo
QGetRedo(q, g, n) ==
  <<Selector(queueRedo(q, g), oldestSelect(n), FALSE, NoCond),
    QueryRemoveFrom(<<queueRedo(q, g)>>)>>

\* QGetContinue whose selector on available is a Union
QGetContinueUnion(q, g, n) ==
  <<Selector(queueInProgressByID(q, g), mostRecentSelect(n), FALSE, NoCond),
    Selector(queueDone(q, g), mostRecentSelect(n), TRUE, NoCond),
    Selector(queueAvailable(q),
             [type |-> "range", Min |-> 0, MinExcl |-> TRUE, Max |-> 0,
              Limit |-> 1, Reverse |-> FALSE, MinFromInput |-> TRUE],
             TRUE, NoCond)>>

\* peel.go:171-195: the most recent events of inProgByID and done, then the
\* next event of avail after them
QGetContinue(q, g, n) ==
  <<Selector(queueInProgressByID(q, g), mostRecentSelect(n), FALSE, NoCond),
    Selector(queueDone(q, g), mostRecentSelect(n), TRUE, NoCond),
    Selector(queueAvailable(q),
             [type |-> "range", Min |-> 0, MinExcl |-> TRUE, Max |-> 0,
              Limit |-> 1, Reverse |-> FALSE, MinFromInput |-> TRUE],
             FALSE, NoCond)>>

\* peel.go:205-220: the first event of avail, if done and inProgByID are empty
QGetFirst(q, g) ==
  <<Selector(queueAvailable(q), [type |-> "pos", pos |-> <<0, 0>>], FALSE,
             <<<<"IfEmpty", queueDone(q, g)>>,
               <<"IfEmpty", queueInProgressByID(q, g)>>>>)>>

\* QGetPlan without the break after the redo branch
QGetPlanNoBreak(q, g, AckDeadline, n) ==
  [EventSetBase |-> q,
   QueryActions |->
     QGetRedo(q, g, n) \o inProgOrDone(q, g, AckDeadline) \o
     QGetContinue(q, g, n) \o inProgOrDone(q, g, AckDeadline) \o <<breakIfFound>> \o
     QGetFirst(q, g),
   Now |-> n]

\* peel.go:153-226
QGetPlan(q, g, AckDeadline, n) ==
  [EventSetBase |-> q,
   QueryActions |->
     QGetRedo(q, g, n) \o inProgOrDone(q, g, AckDeadline) \o <<breakIfFound>> \o
     QGetContinue(q, g, n) \o inProgOrDone(q, g, AckDeadline) \o <<breakIfFound>> \o
     QGetFirst(q, g),
   Now |-> n]

\* QAckPlan whose QueryScoreSelect has no Min: the deadline is not compared
QAckPlanNoMin(q, g, e, n) ==
  [EventSetBase |-> q,
   QueryActions |->
     <<Selector(queueInProgressByAck(q, g),
                [type |-> "score", Event |-> e, Min |-> 0], FALSE, NoCond),
       Break(<<<<"IfNoInput">>>>),
       QueryRemoveFrom(<<queueInProgressByID(q, g),
                         queueInProgressByAck(q, g)>>),
       QueryAddTo(<<queueDone(q, g)>>, 0)>>,
   Now |-> n]

\* QAckPlan that leaves the event in inProgressByAck
QAckPlanAckKept(q, g, e, n) ==
  [EventSetBase |-> q,
   QueryActions |->
     <<Selector(queueInProgressByAck(q, g),
                [type |-> "score", Event |-> e, Min |-> n], FALSE, NoCond),
       Break(<<<<"IfNoInput">>>>),
       QueryRemoveFrom(<<queueInProgressByID(q, g)>>),
       QueryAddTo(<<queueDone(q, g)>>, 0)>>,
   Now |-> n]

\* QAckPlan without its QueryAddTo: the acknowledged event is not put in done
QAckPlanNoDone(q, g, e, n) ==
  [EventSetBase |-> q,
   QueryActions |->
     <<Selector(queueInProgressByAck(q, g),
                [type |-> "score", Event |-> e, Min |-> n], FALSE, NoCond),
       Break(<<<<"IfNoInput">>>>),
       QueryRemoveFrom(<<queueInProgressByID(q, g),
                         queueInProgressByAck(q, g)>>)>>,
   Now |-> n]

\* peel.go:259-287
QAckPlan(q, g, e, n) ==
  [EventSetBase |-> q,
   QueryActions |->
     <<Selector(queueInProgressByAck(q, g),
                [type |-> "score", Event |-> e, Min |-> n], FALSE, NoCond),
       Break(<<<<"IfNoInput">>>>),
       QueryRemoveFrom(<<queueInProgressByID(q, g), queueInProgressByAck(q, g)>>),
       QueryAddTo(<<queueDone(q, g)>>, 0)>>,
   Now |-> n]

\* peel.go:61-78
QAddPlan(q, e) ==
  [EventSetBase |-> q,
   QueryActions |->
     <<Selector(queueAvailable(q), [type |-> "events", Events |-> <<e>>],
                FALSE, NoCond),
       QueryAddTo(<<queueAvailable(q)>>, 0)>>,
   Now |-> 0]

\* NoEvents that never holds: the result is used without the check
NoEventsUnchecked(ee) == FALSE

\* peel.go:231: len(ee) == 0
NoEvents(ee) == Len(ee) = 0

\* The first event of a result, 0 for none (peel.go:231-235)
First(ee) == IF Len(ee) = 0 THEN 0 ELSE ee[1]

(***************************************************************************)
(* core: the ID generator (specification, section 3): time-derived from    *)
(* Expire, unique and increasing, so at times slightly later than Expire   *)
(***************************************************************************)
NewID(expire) == IF expire > lastID THEN expire ELSE lastID + 1

(***************************************************************************)
(* The clients.  A client is idle or inside one call, at the line of its   *)
(* next store interaction.                                                 *)
(***************************************************************************)
NoCall ==
  [op |-> "none", g |-> "", id |-> 0, dl |-> 0, now |-> 0, ret |-> 0,
   redo |-> {}, score |-> 0, again |-> 0]

\* The score of event e in event set z, 0 if z does not hold it
Score(z, e) == IF e \in IDs(z) THEN (CHOOSE m \in z : m[1] = e)[2] ELSE 0
NoLocal == [g |-> "", id |-> 0, q |-> ""]

EmptySets == [k \in Keys |-> {}]

Init ==
  /\ clock = 1
  /\ sets = EmptySets
  /\ lastID = 0
  /\ stored = {}
  /\ pc = [p \in Procs |-> "idle"]
  /\ now = [p \in Procs |-> 0]
  /\ got = [p \in Procs |-> NoLocal]
  /\ last = NoCall

\* time passes
Tick ==
  /\ clock < MaxClock
  /\ clock' = clock + 1
  /\ UNCHANGED <<sets, lastID, stored, pc, now, got, last>>

\* peel.go:50: NewEvent gives the event its ID; c.Queue is not looked at
QAddNewEvent(p, q, expire) ==
  /\ pc[p] = "idle"
  /\ NewID(expire) <= MaxTime
  /\ lastID' = NewID(expire)
  /\ got' = [got EXCEPT ![p] = [g |-> "", id |-> NewID(expire), q |-> q]]
  /\ pc' = [pc EXCEPT ![p] = "QAdd.SetEvent"]
  /\ UNCHANGED <<clock, sets, stored, now, last>>

\* QAddSetEvent that stores nothing and goes on to the plan
QAddSetEventSkipped(p) ==
  /\ pc[p] = "QAdd.SetEvent"
  /\ pc' = [pc EXCEPT ![p] = "QAdd.Query"]
  /\ UNCHANGED <<clock, sets, lastID, stored, now, got, last>>

\* peel.go:57: the contents are stored
QAddSetEvent(p) ==
  /\ pc[p] = "QAdd.SetEvent"
  /\ stored' = stored \cup {got[p].id}
  /\ pc' = [pc EXCEPT ![p] = "QAdd.Query"]
  /\ UNCHANGED <<clock, sets, lastID, now, got, last>>

\* peel.go:57-59: storing the contents fails, QAdd returns the error
QAddSetEventFails(p) ==
  /\ pc[p] = "QAdd.SetEvent"
  /\ pc' = [pc EXCEPT ![p] = "idle"]
  /\ got' = [got EXCEPT ![p] = NoLocal]
  /\ UNCHANGED <<clock, sets, lastID, stored, now, last>>

\* peel.go:79-81: the plan fails as a whole, QAdd returns the error
QAddQueryFails(p) ==
  /\ pc[p] = "QAdd.Query"
  /\ pc' = [pc EXCEPT ![p] = "idle"]
  /\ got' = [got EXCEPT ![p] = NoLocal]
  /\ UNCHANGED <<clock, sets, lastID, stored, now, last>>

\* peel.go:61-83: the event joins available
QAddQuery(p) ==
  /\ pc[p] = "QAdd.Query"
  /\ sets' = Query(QAddPlan(got[p].q, got[p].id), sets).sets
  /\ last' = [NoCall EXCEPT !.op = "QAdd", !.id = got[p].id, !.ret = got[p].id]
  /\ pc' = [pc EXCEPT ![p] = "idle"]
  /\ got' = [got EXCEPT ![p] = NoLocal]
  /\ UNCHANGED <<clock, lastID, stored, now>>

\* peel.go:102: now := time.Now()
QGetNow(p) ==
  /\ pc[p] = "idle"
  /\ now' = [now EXCEPT ![p] = clock]
  /\ pc' = [pc EXCEPT ![p] = "QGet.Query"]
  /\ UNCHANGED <<clock, sets, lastID, stored, got, last>>

\* peel.go:103-233: the plan runs; an empty result returns the empty Event
QGetQuery(p, g, AckDeadline) ==
  /\ pc[p] = "QGet.Query"
  /\ LET r == Query(QGetPlan(Queue, g, AckDeadline, now[p]), sets)
     IN /\ sets' = r.sets
        /\ last' = [op |-> "QGet", g |-> g, id |-> 0, dl |-> AckDeadline,
                    now |-> now[p], ret |-> First(r.acc),
                    redo |-> IDs(sets[queueRedo(Queue, g)]), score |-> 0,
                    again |-> 0]
        /\ IF NoEvents(r.acc)
             THEN /\ pc' = [pc EXCEPT ![p] = "idle"]
                  /\ got' = [got EXCEPT ![p] = NoLocal]
             ELSE /\ pc' = [pc EXCEPT ![p] = "QGet.GetEvent"]
                  /\ got' = [got EXCEPT ![p] = [g |-> g, id |-> First(r.acc), q |-> Queue]]
  /\ now' = [now EXCEPT ![p] = 0]
  /\ UNCHANGED <<clock, lastID, stored>>

\* peel.go:235: the Event of ee[0].ID is fetched and returned
QGetGetEvent(p) ==
  /\ pc[p] = "QGet.GetEvent"
  /\ pc' = [pc EXCEPT ![p] = "idle"]
  /\ got' = [got EXCEPT ![p] = NoLocal]
  /\ UNCHANGED <<clock, sets, lastID, stored, now, last>>

\* peel.go:253: now := time.Now()
QAckNow(p) ==
  /\ pc[p] = "idle"
  /\ now' = [now EXCEPT ![p] = clock]
  /\ pc' = [pc EXCEPT ![p] = "QAck.Query"]
  /\ UNCHANGED <<clock, sets, lastID, stored, got, last>>

\* peel.go:255-293: the plan runs; true if it selected the event
QAckQuery(p, g, e) ==
  /\ pc[p] = "QAck.Query"
  /\ LET r == Query(QAckPlan(Queue, g, e, now[p]), sets)
     IN /\ sets' = r.sets
        /\ last' = [op |-> "QAck", g |-> g, id |-> e, dl |-> 0,
                    now |-> now[p], ret |-> IF Len(r.acc) > 0 THEN 1 ELSE 0,
                    redo |-> {},
                    score |-> Score(sets[queueInProgressByAck(Queue, g)], e),
                    again |-> IF last.op = "QAck" /\ last.g = g /\ last.id = e
                                THEN 1 + last.ret ELSE 0]
  /\ pc' = [pc EXCEPT ![p] = "idle"]
  /\ now' = [now EXCEPT ![p] = 0]
  /\ UNCHANGED <<clock, lastID, stored, got>>

(***************************************************************************)
(* The sweep (specification, sections 4.5 and 9): the members of           *)
(* in-progress-by-ack-deadline whose deadline has passed move to redo.     *)
(* Whether they leave in-progress-by-id as well is not specified: both     *)
(* outcomes are modelled.                                                  *)
(***************************************************************************)
Expired(g) == {m \in sets[queueInProgressByAck(Queue, g)] : m[2] < clock}

Sweep(g, both) ==
  /\ Expired(g) # {}
  /\ sets' = [sets EXCEPT
       ![queueInProgressByAck(Queue, g)] = @ \ Expired(g),
       ![queueInProgressByID(Queue, g)] =
         IF both THEN {m \in @ : m[1] \notin IDs(Expired(g))} ELSE @,
       ![queueRedo(Queue, g)] =
         {m \in @ : m[1] \notin IDs(Expired(g))} \cup
         {<<e, e>> : e \in IDs(Expired(g))}]
  /\ last' = [NoCall EXCEPT !.op = "Sweep", !.g = g, !.now = clock]
  /\ UNCHANGED <<clock, lastID, stored, pc, now, got>>

\* Client p's steps in QAdd, for the queue names Q
Producer(p, Q) ==
  \/ \E q \in Q, expire \in Times : QAddNewEvent(p, q, expire)
  \/ QAddSetEvent(p)
  \/ QAddQuery(p)

\* Client p's steps in QGet and QAck, for the consumer groups G
Consumer(p, G) ==
  \/ QGetNow(p)
  \/ \E g \in G, AckDeadline \in 0 .. MaxTime : QGetQuery(p, g, AckDeadline)
  \/ QGetGetEvent(p)
  \/ QAckNow(p)
  \/ \E g \in G, e \in Times : QAckQuery(p, g, e)

\* One client's steps
Client(p, G, Q) == Producer(p, Q) \/ Consumer(p, G)

\* The calls of the store that fail under client p
Fails(p) == QAddSetEventFails(p) \/ QAddQueryFails(p)

\* Concurrent clients of an empty store that does not fail
Next == Tick \/ \E p \in Procs : Client(p, {"g1"}, {Queue})

Spec == Init /\ [][Next]_vars

(***************************************************************************)
(* A store that was in use before: available holds events, and group g1    *)
(* may have completed an event, still in available or not.  One client of  *)
(* g1 and the sweep of g1 work on it.                                      *)
(***************************************************************************)
InitStore ==
  /\ clock = 1
  /\ \E A \in SUBSET Times, d \in 0 .. MaxTime :
       /\ stored = A
       /\ lastID = CHOOSE x \in A \cup {d} : \A y \in A \cup {d} : y <= x
       /\ sets = [EmptySets EXCEPT
                 ![queueAvailable(Queue)] = {<<e, e>> : e \in A},
                 ![queueDone(Queue, "g1")] = IF d = 0 THEN {} ELSE {<<d, d>>}]
  /\ pc = [p \in Procs |-> "idle"]
  /\ now = [p \in Procs |-> 0]
  /\ got = [p \in Procs |-> NoLocal]
  /\ last = NoCall

NextStore ==
  \/ Tick
  \/ Client("p1", {"g1"}, {Queue})
  \/ \E both \in BOOLEAN : Sweep("g1", both)

SpecStore == InitStore /\ [][NextStore]_vars

(***************************************************************************)
(* An empty store that can fail, with a client that adds events, by        *)
(* QAddCommands that carry a queue name or none, and a concurrent client   *)
(* of group g1                                                             *)
(***************************************************************************)
NextAdd ==
  \/ Tick
  \/ Producer("p1", QueueNames)
  \/ Fails("p1")
  \/ Consumer("p2", {"g1"})

SpecAdd == Init /\ [][NextAdd]_vars

(***************************************************************************)
(* A store that was in use before by two consumer groups, each of which    *)
(* may have completed an event: available holds all events but the latest, *)
(* which a QAdd can add.  One client calls for both groups.                *)
(***************************************************************************)
InitGroups ==
  /\ clock = 1
  /\ \E A \in {1 .. MaxTime - 1}, d \in [Groups -> 0 .. MaxTime] :
       /\ stored = A
       /\ lastID = CHOOSE x \in A \cup {d[g] : g \in Groups} :
                     \A y \in A \cup {d[g] : g \in Groups} : y <= x
       /\ sets = [k \in Keys |->
                   IF k = queueAvailable(Queue) THEN {<<e, e>> : e \in A}
                   ELSE IF \E g \in Groups : k = queueDone(Queue, g) /\ d[g] # 0
                          THEN {<<d[k[3]], d[k[3]]>>}
                          ELSE {}]
  /\ pc = [p \in Procs |-> "idle"]
  /\ now = [p \in Procs |-> 0]
  /\ got = [p \in Procs |-> NoLocal]
  /\ last = NoCall

NextGroups == Tick \/ Client("p1", Groups, {Queue})

SpecGroups == InitGroups /\ [][NextGroups]_vars

(***************************************************************************)
(* Properties                                                              *)
(***************************************************************************)
avail == sets[queueAvailable(Queue)]
inProgID(g) == sets[queueInProgressByID(Queue, g)]
inProgAck(g) == sets[queueInProgressByAck(Queue, g)]
redo(g) == sets[queueRedo(Queue, g)]
done(g) == sets[queueDone(Queue, g)]

\* This step is client p's QGet plan (peel.go:228) / QAck plan (peel.go:289)
GetStep(p) == pc[p] = "QGet.Query" /\ pc'[p] # "QGet.Query"
AckStep(p) == pc[p] = "QAck.Query" /\ pc'[p] # "QAck.Query"

\* C1: mutual exclusion.  While available holds at least two unexpired events
\* and client p, whose QGet plan was the last to run, has not yet returned, the
\* QGet plan of another client q for the same consumer group returns an event,
\* and not the one p holds.
C1_MutualExclusion ==
  [][\A p, q \in Procs :
       ( /\ p # q
         /\ last.op = "QGet" /\ last.ret # 0
         /\ pc[p] = "QGet.GetEvent" /\ got[p].g = last.g /\ got[p].id = last.ret
         /\ Cardinality({m \in avail : m[2] > clock}) >= 2
         /\ GetStep(q)
         /\ last'.g = last.g )
       => (last'.ret # 0 /\ last'.ret # last.ret)]_vars

\* C2: an Acknowledge within the deadline succeeds.  When the most recent plan
\* was a QGet with deadline D that returned event e, a QAck of e for the same
\* group whose now is at most D (and before e's Expire), run while no other
\* client is in a call, returns true.
C2_AckWithinDeadline ==
  [][\A p \in Procs :
       ( /\ last.op = "QGet" /\ last.dl # 0 /\ last.ret # 0
         /\ AckStep(p)
         /\ \A q \in Procs \ {p} : pc[q] = "idle"
         /\ last'.g = last.g /\ last'.id = last.ret
         /\ now[p] <= last.dl /\ now[p] < last.ret )
       => last'.ret = 1]_vars

\* C3: a drained queue yields empty.  When available holds one event and the
\* most recent plan was a QGet without deadline that returned it, unexpired,
\* the next QGet of the group, run while no other client is in a call,
\* returns the empty Event.
C3_DrainedYieldsEmpty ==
  [][\A p \in Procs :
       ( /\ last.op = "QGet" /\ last.dl = 0 /\ last.ret > last.now
         /\ IDs(avail) = {last.ret}
         /\ GetStep(p)
         /\ \A q \in Procs \ {p} : pc[q] = "idle"
         /\ last'.g = last.g )
       => last'.ret = 0]_vars
Unexpired(z, n) == {m \in z : m[2] > n}

C5_Continuation ==
  [][\A p \in Procs :
       ( /\ last.op = "QGet" /\ last.dl = 0 /\ last.ret # 0
         /\ GetStep(p)
         /\ \A q \in Procs \ {p} : pc[q] = "idle"
         /\ last'.g = last.g
         /\ now[p] < last.ret
         /\ \E a \in IDs(avail) : a > last.ret )
       => last'.ret = Min({a \in IDs(avail) : a > last.ret})]_vars

C8_EmptyQueue ==
  [][\A p \in Procs :
       ( /\ GetStep(p)
         /\ avail = {}
         /\ inProgID(last'.g) = {} /\ inProgAck(last'.g) = {}
         /\ redo(last'.g) = {} /\ done(last'.g) = {} )
       => (last'.ret = 0 /\ pc'[p] = "idle" /\ sets' = sets)]_vars

\* A QGet on the empty store returned the empty Event
C8_Witness == last.op = "QGet" /\ last.ret = 0 /\ sets = EmptySets /\ pc["p1"] = "idle"

\* C9: no expired event is delivered.  The event a QGet plan returns has an ID
\* (its Expire) after the plan's Now.
C9_NoExpiredDelivery ==
  [][\A p \in Procs : (GetStep(p) /\ last'.ret # 0) => last'.ret > now[p]]_vars

\* No event ID is in more than one of available and the group's event sets
SingleCollection ==
  \A g \in Groups, e \in Times :
    Cardinality({k \in {queueAvailable(Queue), queueInProgressByID(Queue, g),
                        queueInProgressByAck(Queue, g), queueRedo(Queue, g),
                        queueDone(Queue, g)} : e \in IDs(sets[k])}) <= 1

\* C10 as claimed: the single-collection invariant.  No step takes a store in
\* which every event ID is in at most one event set of its queue and group to
\* one in which an ID is in several.
C10_SingleCollection == [][SingleCollection => SingleCollection']_vars

\* C10 as amended: no event ID is at once in a group's redo and in its
\* in-progress-by-ack-deadline set.
C10_RedoApartFromInProgress ==
  \A g \in Groups : IDs(redo(g)) \cap IDs(inProgAck(g)) = {}

\* A QGet with a deadline moved an event from redo to the in-progress sets
C10_Witness ==
  /\ last.op = "QGet" /\ last.dl # 0 /\ last.ret \in last.redo
  /\ last.ret \in IDs(inProgID(last.g)) \cap IDs(inProgAck(last.g))

\* C11: no membership without payload.  An event ID that a step adds to an
\* available set had its contents stored before the step, whatever calls run
\* concurrently; and when storing the contents fails, QAdd returns and neither
\* an event set nor the payload store has changed.
C11_NoMembershipWithoutPayload ==
  [][/\ \A q \in QueueNames :
          IDs(sets'[queueAvailable(q)]) \ IDs(sets[queueAvailable(q)])
            \subseteq stored
     /\ \A p \in Procs :
          (pc[p] = "QAdd.SetEvent" /\ pc'[p] = "idle")
          => (sets' = sets /\ stored' = stored)]_vars

\* A QAdd made its stored event a member of available while a QGet was under
\* way, and an earlier QAdd whose plan failed has left contents with no
\* membership
C11_Witness ==
  /\ last.op = "QAdd" /\ last.ret \in IDs(avail) \cap stored
  /\ pc["p2"] = "QGet.Query" /\ pc["p1"] = "idle"
  /\ \E e \in stored : \A q \in QueueNames : e \notin IDs(sets[queueAvailable(q)])

\* The event sets of consumer group g
GroupKeys(g) ==
  {queueInProgressByID(Queue, g), queueInProgressByAck(Queue, g),
   queueRedo(Queue, g), queueDone(Queue, g)}

\* C12: group isolation.  A QGet or QAck plan for consumer group g leaves
\* available and every event set of another group as they were, and with them
\* what a QGet of another group would return, at any Now.
C12_GroupIsolation ==
  [][\A p \in Procs :
       (GetStep(p) \/ AckStep(p))
       => /\ \A k \in Keys \ GroupKeys(last'.g) : sets'[k] = sets[k]
          /\ \/ sets' = sets
             \/ \A g \in Groups \ {last'.g}, n \in 1 .. MaxClock :
                  Query(QGetPlan(Queue, g, 0, n), sets').acc =
                  Query(QGetPlan(Queue, g, 0, n), sets).acc]_vars

\* A QGet of g2 delivered and recorded an event that g1, whose done is not
\* empty, has not had
C12_Witness ==
  /\ last.op = "QGet" /\ last.g = "g2" /\ last.ret # 0
  /\ last.ret \in IDs(done("g2")) \cup IDs(inProgID("g2"))
  /\ done("g1") # {}
  /\ last.ret \notin IDs(done("g1")) \cup IDs(inProgID("g1"))

\* C13: validation.  A QAdd whose command carries no queue name writes no
\* contents and changes no event set.
C13_Validation ==
  [][\A p \in Procs :
       (pc[p] \in {"QAdd.SetEvent", "QAdd.Query"} /\ got[p].q = "")
       => (stored' = stored /\ sets' = sets)]_vars

\* C14: every delivery is recorded.  After a QGet plan that returns an event
\* (one not yet expired),
\* the event is in the group's in-progress-by-id with its natural score and in
\* in-progress-by-ack-deadline with the deadline as score, when an AckDeadline
\* was given, and in the group's done when none was.
C14_DeliveryRecorded ==
  [][\A p \in Procs :
       (GetStep(p) /\ last'.ret > now[p])
       => IF last'.dl # 0
            THEN /\ <<last'.ret, last'.ret>> \in sets'[queueInProgressByID(Queue, last'.g)]
                 /\ <<last'.ret, last'.dl>> \in sets'[queueInProgressByAck(Queue, last'.g)]
            ELSE <<last'.ret, last'.ret>> \in sets'[queueDone(Queue, last'.g)]]_vars

\* The event sets after event e of group g is acknowledged
Acked(g, e) ==
  [sets EXCEPT
     ![queueInProgressByID(Queue, g)] = {m \in @ : m[1] # e},
     ![queueInProgressByAck(Queue, g)] = {m \in @ : m[1] # e},
     ![queueDone(Queue, g)] = {m \in @ : m[1] # e} \cup {<<e, e>>}]

\* C15: the effect of Acknowledge.  A QAck plan returns true exactly when the
\* event is in the group's in-progress-by-ack-deadline with a score of at
\* least Now; then the event leaves both in-progress sets and joins done, and
\* nothing else changes; when it returns false no event set changes.
C15_AckEffect ==
  [][\A p \in Procs :
       AckStep(p)
       => LET held == \E m \in inProgAck(last'.g) :
                        m[1] = last'.id /\ m[2] >= now[p]
          IN /\ (last'.ret = 1) <=> held
             /\ sets' = IF held THEN Acked(last'.g, last'.id) ELSE sets
             /\ UNCHANGED <<stored, lastID>>]_vars

\* A QAck returned true for an event that was in progress, which is now in
\* done and in neither in-progress set
C15_Witness ==
  /\ last.op = "QAck" /\ last.ret = 1 /\ last.score >= last.now
  /\ last.id \in IDs(done(last.g))
  /\ last.id \notin IDs(inProgID(last.g)) \cup IDs(inProgAck(last.g))

\* C16: a QGet that finds nothing changes nothing.  After a QGet plan that
\* returns no event, every event set is as it was before it.
C16_EmptyGetChangesNothing ==
  [][\A p \in Procs : (GetStep(p) /\ last'.ret = 0) => sets' = sets]_vars

\* A QGet returned no event although available, the group's done and its redo
\* all hold events
C16_Witness ==
  /\ last.op = "QGet" /\ last.ret = 0
  /\ avail # {} /\ done(last.g) # {} /\ last.redo # {}

\* The members (ID and score) that event set k holds after the step and did
\* not hold before it
Added(k) == sets'[k] \ sets[k]

\* C17: at most one event per QGet.  The accumulator a QGet plan ends with
\* holds no or one event ID, and the plan adds at most one event to the
\* group's in-progress sets and done.
C17_AtMostOneEvent ==
  [][\A p \in Procs :
       GetStep(p)
       => /\ Len(Query(QGetPlan(Queue, last'.g, last'.dl, now[p]), sets).acc) <= 1
          /\ Cardinality(IDs(Added(queueInProgressByID(Queue, last'.g))) \cup
                         IDs(Added(queueInProgressByAck(Queue, last'.g))) \cup
                         IDs(Added(queueDone(Queue, last'.g)))) <= 1]_vars

\* A QGet without deadline returned one event by the continuation branch when
\* both the group's in-progress-by-id and its done held an unexpired event, so
\* that the union of the two selectors held two
C17_Witness ==
  /\ last.op = "QGet" /\ last.dl = 0 /\ last.ret # 0 /\ last.redo = {}
  /\ \E m \in inProgID(last.g) : m[2] > last.now
  /\ \E m \in done(last.g) : m[1] # last.ret /\ m[2] > last.now
  /\ \A m \in inProgID(last.g), d \in done(last.g) \ {<<last.ret, last.ret>>} :
       m[1] # d[1]

\* C18: no delivery of an event the group already holds.  A QGet plan that
\* does not take its event from redo never returns an event that was in the
\* group's in-progress-by-id or done before the plan.
C18_NoRedelivery ==
  [][\A p \in Procs :
       ( /\ GetStep(p) /\ last'.ret # 0
         /\ Unexpired(redo(last'.g), now[p]) = {} )
       => last'.ret \notin IDs(inProgID(last'.g)) \cup IDs(done(last'.g))]_vars

\* C19: no stall.  When the group's redo is empty and available holds an
\* unexpired event whose ID is above every ID in the group's done and
\* in-progress-by-id, a QGet plan returns an event.
C19_NoStall ==
  [][\A p \in Procs :
       ( /\ GetStep(p)
         /\ redo(last'.g) = {}
         /\ \E a \in IDs(avail) :
              /\ a > now[p]
              /\ \A x \in IDs(done(last'.g)) \cup IDs(inProgID(last'.g)) : a > x )
       => last'.ret # 0]_vars

\* The two in-progress sets of every consumer group hold the same event IDs
IndexesAgree(s) ==
  \A g \in Groups :
    IDs(s[queueInProgressByID(Queue, g)]) = IDs(s[queueInProgressByAck(Queue, g)])

\* C20: the in-progress indexes agree.  A QAdd, QGet or QAck plan that starts
\* with the same event IDs in in-progress-by-id and in-progress-by-ack-deadline
\* of every group ends with the same event IDs in both; they are the same in
\* the empty store.
C20_IndexesAgree ==
  [][( /\ IndexesAgree(sets)
       /\ \E p \in Procs :
            \/ GetStep(p)
            \/ AckStep(p)
            \/ pc[p] = "QAdd.Query" /\ pc'[p] # "QAdd.Query" )
     => IndexesAgree(sets')]_vars

\* A QAck has taken the event that a QGet with deadline had put in both
\* in-progress sets out of both
C20_Witness ==
  /\ last.op = "QAck" /\ last.ret = 1 /\ last.score # 0
  /\ last.id \notin IDs(inProgID(last.g)) \cup IDs(inProgAck(last.g))
  /\ IndexesAgree(sets)
====
